---------------------------- MODULE Spec2Model ----------------------------
(***************************************************************************)
(* The background service worker of the community wealth ranking          *)
(* extension (background.js): asyncPool, fetchAllMembers, fetchUserRAP,    *)
(* processCommunity and the chrome.runtime.onMessage listener.             *)
(*                                                                         *)
(* SpecPool runs asyncPool alone, for every limit and array within the     *)
(* bounds, with an iterator function that may fulfil or reject at any      *)
(* time.  Spec runs the listener and processCommunity for one message,     *)
(* whose iterator function is the closure of background.js:94-97; the      *)
(* upstream servers and the store are the environment.  FairSpec is Spec   *)
(* under weak fairness, for the claims about what eventually happens.      *)
(* SpecOverlap delivers two messages whose runs interleave.  SpecDup       *)
(* serves rosters that may name a member more than once.                   *)
(*                                                                         *)
(* A step of the model is a piece of code that runs without yielding: the  *)
(* arrival of a response together with the continuation it resumes.  The   *)
(* for loop of asyncPool is modelled one iteration per step.               *)
(***************************************************************************)
EXTENDS Integers, Sequences, FiniteSets

\* ------------------------------------------------------------------ bounds

\* SpecPool: the longest array and the largest poolLimit handed to asyncPool.
MaxLen == 3
MaxLimit == 3
\* Spec: the largest roster the upstream group holds.
MaxMembers == 2
\* Spec: members per roster page.  The source asks for limit=100; the model
\* scales the page size down so that rosters within MaxMembers span pages.
RosterPageSize == 1
\* background.js:6 sets 15.  The model scales the limit down so that rosters
\* within MaxMembers reach both branches of `poolLimit <= array.length`.
CONCURRENCY_LIMIT == 2

\* -------------------------------------------------------- program constants

LIMITED_THRESHOLD == 10000

\* The message slots: each slot is one message delivered to the listener and
\* the processCommunity run it starts.
Runs == {1}

\* The items of a SpecPool array (equal items may repeat in an array).
PoolItems == {"a", "b"}

CommunityIds == {7, 8}

Usernames == <<"A", "B", "C", "D", "E", "F">>

\* ------------------------------------------------------------ JS helpers

Min(a, b) == IF a < b THEN a ELSE b
Max(a, b) == IF a > b THEN a ELSE b

\* Array.prototype.indexOf: the 0-based index of the first element equal to
\* x, or -1.
IndexOf(s, x) ==
    IF \E i \in 1..Len(s) : s[i] = x
    THEN (CHOOSE i \in 1..Len(s) : s[i] = x /\ \A j \in 1..(i - 1) : s[j] # x) - 1
    ELSE -1

\* Array.prototype.splice(start, 1): a negative start counts from the end.
Splice1(s, start) ==
    LET k == IF start < 0 THEN Max(Len(s) + start, 0) ELSE Min(start, Len(s))
    IN  [i \in 1..(Len(s) - (IF k < Len(s) THEN 1 ELSE 0)) |->
            IF i <= k THEN s[i] ELSE s[i + 1]]

\* Seqs of length at most n over S.
SeqsUpTo(S, n) == UNION {[1..k -> S] : k \in 0..n}

VARIABLES
    \* ---- asyncPool(poolLimit, array, iteratorFn), per run
    poolLimit,   \* the poolLimit argument
    array,       \* the array argument
    nextIdx,     \* how many items the for loop has taken
    executing,   \* the `executing` array: e is named by its item's position
    pool,        \* "idle" | "loop" | "race" | "all" | "resolved" | "rejected"
    race,        \* the awaited Promise.race: "none" | "pending" | "fulfilled" | "rejected"
    task,        \* per position, the promise p of `ret`:
                 \*   "none" | "scheduled" | "running" | "fulfilled" | "rejected"
    started,     \* per position, how many times iteratorFn was invoked for it
    argIndex,    \* per position, the index argument iteratorFn was invoked with
    \* ---- fetchUserRAP, per run and position
    cursor,      \* the cursor of the page requested
    rap,         \* the running total
    outcome,     \* how the call ended: "pending" | "complete" | "status" | "raised"
    failedPage,  \* the page whose non-success status ended the call (0: none)
    itemReqs,    \* the cursors of the collectibles pages requested, in request order
    \* ---- processCommunity, per run
    phase,       \* "Idle" | "Getting" | "FetchingRoster" | "AggregatingScores"
                 \*   | "Persisting" | "Done" | "Failed"
    communityId,
    rosterCursor,
    rosterReqs,  \* the cursors of the roster pages requested, in request order
    members,
    rapResults,
    rapWrites,   \* per position, the keys of rapResults its task has assigned
    reordered,   \* whether some task has recorded its score before the task
                 \*   of an earlier roster position has
    ranked,
    error,
    failedIn,    \* the phase the run was in when it failed ("" while it has not)
    writes,      \* how many store writes the run has completed
    \* ---- the listener
    msg,         \* the message of the slot: "none" | "FETCH_COMMUNITY" | "REFRESH"
    response,    \* the responses sent through sendResponse
    \* ---- environment
    store,       \* chrome.storage.local: a function from the keys present
    store0,      \* the store as it was when the worker started
    persisted,   \* the communities of the store writes completed, in order
    upSize,      \* the upstream users: 1..upSize
    upRoster,    \* the user ids the roster source serves for the group, in order
    upItems      \* per user, the pages of the upstream collectibles listing

poolVars == <<poolLimit, array, nextIdx, executing, pool, race, task, started, argIndex>>
fetchVars == <<cursor, rap, outcome, failedPage>>
runVars == <<phase, communityId, rosterCursor, rosterReqs, members, ranked, error,
             failedIn, writes>>
msgVars == <<msg, response>>
upVars == <<upSize, upRoster, upItems>>
envVars == <<store0, persisted, upVars>>

vars == <<poolVars, fetchVars, itemReqs, runVars, rapResults, rapWrites, reordered,
          msgVars, store, envVars>>

\* ------------------------------------------------------------- asyncPool

Positions(r) == 1..Len(array[r])

\* line 20: `poolLimit <= array.length`
Throttled(r) == poolLimit[r] <= Len(array[r])

\* line 23: `executing.length >= poolLimit`
PoolFull_OffByOne(r, exec) == Len(exec) > poolLimit[r]
PoolFull(r, exec) == Len(exec) >= poolLimit[r]

\* e = p.then(...) is rejected exactly when p is: the splice callback only
\* runs on fulfilment.  Promise.race over `exec` is settled at once by an
\* entry that is already rejected (fulfilled entries have left the array).
RaceOf(r, exec) ==
    IF \E i \in 1..Len(exec) : task[r][exec[i]] = "rejected"
    THEN "rejected" ELSE "pending"

\* The state asyncPool is in right after it is called (lines 15-16).
PoolCall(r, limit, arr) ==
    /\ poolLimit' = [poolLimit EXCEPT ![r] = limit]
    /\ array' = [array EXCEPT ![r] = arr]
    /\ nextIdx' = [nextIdx EXCEPT ![r] = 0]
    /\ executing' = [executing EXCEPT ![r] = <<>>]
    /\ pool' = [pool EXCEPT ![r] = "loop"]
    /\ race' = [race EXCEPT ![r] = "none"]
    /\ task' = [task EXCEPT ![r] = [p \in 1..Len(arr) |-> "none"]]
    /\ started' = [started EXCEPT ![r] = [p \in 1..Len(arr) |-> 0]]
    /\ argIndex' = [argIndex EXCEPT ![r] = [p \in 1..Len(arr) |-> -1]]

\* lines 17-26: one iteration of `for (const item of array)`.
PoolIterate(r) ==
    /\ pool[r] = "loop"
    /\ nextIdx[r] < Len(array[r])
    /\ LET p == nextIdx[r] + 1
           exec == IF Throttled(r) THEN Append(executing[r], p) ELSE executing[r]
           awaits == Throttled(r) /\ PoolFull(r, exec)
       IN  /\ nextIdx' = [nextIdx EXCEPT ![r] = p]
           /\ task' = [task EXCEPT ![r][p] = "scheduled"]
           /\ executing' = [executing EXCEPT ![r] = exec]
           /\ pool' = [pool EXCEPT ![r] = IF awaits THEN "race" ELSE "loop"]
           /\ race' = [race EXCEPT ![r] = IF awaits THEN RaceOf(r, exec) ELSE "none"]
    /\ UNCHANGED <<poolLimit, array, started, argIndex>>

\* line 28: the loop is over, `return Promise.all(ret)`.
PoolLoopEnd(r) ==
    /\ pool[r] = "loop"
    /\ nextIdx[r] = Len(array[r])
    /\ pool' = [pool EXCEPT ![r] = "all"]
    /\ UNCHANGED <<poolLimit, array, nextIdx, executing, race, task, started, argIndex>>

\* line 18: the microtask of Promise.resolve().then(...) invokes
\* iteratorFn(item, array.indexOf(item)).
InvokeIterator(r, p) ==
    /\ p \in Positions(r)
    /\ task[r][p] = "scheduled"
    /\ task' = [task EXCEPT ![r][p] = "running"]
    /\ started' = [started EXCEPT ![r][p] = @ + 1]
    /\ argIndex' = [argIndex EXCEPT ![r][p] = IndexOf(array[r], array[r][p])]
    /\ UNCHANGED <<poolLimit, array, nextIdx, executing, pool, race>>

\* The promise iteratorFn returned fulfils, and with it p.
IteratorFulfils(r, p) ==
    /\ p \in Positions(r)
    /\ task[r][p] = "running"
    /\ task' = [task EXCEPT ![r][p] = "fulfilled"]
    /\ UNCHANGED <<poolLimit, array, nextIdx, executing, pool, race, started, argIndex>>

\* The promise iteratorFn returned rejects, and with it p and e; a pending
\* race that holds e rejects.
IteratorRejects(r, p) ==
    /\ p \in Positions(r)
    /\ task[r][p] = "running"
    /\ task' = [task EXCEPT ![r][p] = "rejected"]
    /\ race' = [race EXCEPT ![r] =
                   IF @ = "pending" /\ IndexOf(executing[r], p) >= 0
                   THEN "rejected" ELSE @]
    /\ UNCHANGED <<poolLimit, array, nextIdx, executing, pool, started, argIndex>>

\* line 21: the callback of e, `executing.splice(executing.indexOf(e), 1)`;
\* e fulfils, and so does a pending race that holds it.
Splice(r, p) ==
    /\ p \in Positions(r)
    /\ task[r][p] = "fulfilled"
    /\ IndexOf(executing[r], p) >= 0
    /\ executing' = [executing EXCEPT ![r] = Splice1(@, IndexOf(@, p))]
    /\ race' = [race EXCEPT ![r] = IF @ = "pending" THEN "fulfilled" ELSE @]
    /\ UNCHANGED <<poolLimit, array, nextIdx, pool, task, started, argIndex>>

\* line 24: `await Promise.race(executing)` resumes, or throws.
RaceWake(r) ==
    /\ pool[r] = "race"
    /\ race[r] \in {"fulfilled", "rejected"}
    /\ pool' = [pool EXCEPT ![r] = IF race[r] = "fulfilled" THEN "loop" ELSE "rejected"]
    /\ race' = [race EXCEPT ![r] = "none"]
    /\ UNCHANGED <<poolLimit, array, nextIdx, executing, task, started, argIndex>>

\* line 28: Promise.all(ret) fulfils when every p has, and rejects as soon
\* as one p is rejected.
AllSettles(r) ==
    /\ pool[r] = "all"
    /\ LET rejected == \E p \in Positions(r) : task[r][p] = "rejected"
           fulfilled == \A p \in Positions(r) : task[r][p] = "fulfilled"
       IN  /\ rejected \/ fulfilled
           /\ pool' = [pool EXCEPT ![r] = IF rejected THEN "rejected" ELSE "resolved"]
    /\ UNCHANGED <<poolLimit, array, nextIdx, executing, race, task, started, argIndex>>

\* --------------------------------------------------------------- upstream

\* A cursor is an opaque token: <<>> stands for '' and for an absent
\* nextPageCursor (both falsy), <<k>> for the token that asks for page k.
PageOf(c) == IF c = <<>> THEN 1 ELSE c[1]
NextPageCursor(nPages, k) == IF k < nPages THEN <<k + 1>> ELSE <<>>

\* The roster source: it serves the users of upRoster, RosterPageSize to a
\* page, in order; an empty group has one empty page.
RosterNumPages ==
    IF upRoster = <<>> THEN 1
    ELSE (Len(upRoster) + RosterPageSize - 1) \div RosterPageSize
RosterBody(k) ==
    [data |-> [i \in 1..(Min(k * RosterPageSize, Len(upRoster)) - (k - 1) * RosterPageSize) |->
                  LET u == upRoster[(k - 1) * RosterPageSize + i]
                  IN  [user |-> [userId |-> u, username |-> Usernames[u]]]],
     nextPageCursor |-> NextPageCursor(RosterNumPages, k)]

\* The collectibles source: an item carries a recentAveragePrice, or none.
Priced(v) == [recentAveragePrice |-> v]
Unpriced == [assetId |-> 1]
\* The listings a user may have: each a sequence of pages.
ItemData ==
    { << <<Priced(15000)>> >>,
      << <<Priced(5000), Priced(12000)>> >>,
      << <<Priced(10000), Priced(9999)>>, <<Unpriced, Priced(20000)>> >> }
ItemsBody(u, k) ==
    [data |-> upItems[u][k], nextPageCursor |-> NextPageCursor(Len(upItems[u]), k)]

\* ------------------------------------------------------------ the store

EmptyStore == <<>>
\* An object with key k set to v.
Put(f, k, v) == [x \in (DOMAIN f) \cup {k} |-> IF x = k THEN v ELSE f[x]]
\* The community of the snapshot an earlier run may have left behind.
PriorId == CHOOSE c \in CommunityIds : \A d \in CommunityIds : c >= d
\* A snapshot an earlier run for community c left behind.
PriorSnapshot(c) ==
    Put(Put(EmptyStore, "lastCommunityId", c),
        "lastResults", <<[username |-> "Z", rap |-> 12345]>>)

\* ------------------------------------------------------ processCommunity

\* A rejection reaches the caller of processCommunity.
Fail(r, message) ==
    /\ phase' = [phase EXCEPT ![r] = "Failed"]
    /\ error' = [error EXCEPT ![r] = message]
    /\ failedIn' = [failedIn EXCEPT ![r] = phase[r]]

\* line 90, lines 37-42: processCommunity(c) calls fetchAllMembers(c), which
\* requests the first page.
ProcessCommunity(r, c) ==
    /\ phase' = [phase EXCEPT ![r] = "FetchingRoster"]
    /\ communityId' = [communityId EXCEPT ![r] = c]
    /\ rosterCursor' = [rosterCursor EXCEPT ![r] = <<>>]
    /\ rosterReqs' = [rosterReqs EXCEPT ![r] = << <<>> >>]
    /\ members' = [members EXCEPT ![r] = <<>>]

idlePool == <<poolVars, fetchVars, itemReqs, rapResults, rapWrites, reordered>>

\* lines 109-115: a FETCH_COMMUNITY message.
OnFetchCommunity(r, c) ==
    /\ msg[r] = "none"
    /\ msg' = [msg EXCEPT ![r] = "FETCH_COMMUNITY"]
    /\ ProcessCommunity(r, c)
    /\ UNCHANGED <<idlePool, ranked, error, failedIn, writes, response, store, envVars>>

\* lines 117-118, 127: a REFRESH message; chrome.storage.local.get is issued.
OnRefresh(r) ==
    /\ msg[r] = "none"
    /\ msg' = [msg EXCEPT ![r] = "REFRESH"]
    /\ phase' = [phase EXCEPT ![r] = "Getting"]
    /\ UNCHANGED <<idlePool, communityId, rosterCursor, rosterReqs, members, ranked,
                   error, failedIn, writes, response, store, envVars>>

\* lines 118-126: the callback of chrome.storage.local.get.
OnStoredId_NoCheck(r) ==
    /\ phase[r] = "Getting"
    /\ ProcessCommunity(r, IF "lastCommunityId" \in DOMAIN store
                           THEN store["lastCommunityId"] ELSE 0)
    /\ UNCHANGED <<idlePool, ranked, error, failedIn, writes, msgVars, store, envVars>>
OnStoredId(r) ==
    /\ phase[r] = "Getting"
    /\ IF "lastCommunityId" \in DOMAIN store /\ store["lastCommunityId"] # 0
       THEN /\ ProcessCommunity(r, store["lastCommunityId"])
            /\ UNCHANGED response
       ELSE /\ response' = [response EXCEPT ![r] =
                   Append(@, [success |-> FALSE, error |-> "No previous community searched."])]
            /\ phase' = [phase EXCEPT ![r] = "Idle"]
            /\ UNCHANGED <<communityId, rosterCursor, rosterReqs, members>>
    /\ UNCHANGED <<idlePool, ranked, error, failedIn, writes, msg, store, envVars>>

rosterFrame == <<ranked, writes, msgVars, store, envVars>>

\* line 42: fetch() of a roster page rejects (the source is unreachable).
RosterUnreachable(r) ==
    /\ phase[r] = "FetchingRoster"
    /\ Fail(r, "Failed to fetch")
    /\ UNCHANGED <<idlePool, communityId, rosterCursor, rosterReqs, members, rosterFrame>>

\* lines 43-45: a roster page comes back with a non-success status.
RosterStatusNotOk(r) ==
    /\ phase[r] = "FetchingRoster"
    /\ Fail(r, "Failed to fetch members: 500")
    /\ UNCHANGED <<idlePool, communityId, rosterCursor, rosterReqs, members, rosterFrame>>

\* line 46: res.json() of a roster page rejects (the body is unreadable).
RosterBodyUnreadable(r) ==
    /\ phase[r] = "FetchingRoster"
    /\ Fail(r, "Unexpected end of JSON input")
    /\ UNCHANGED <<idlePool, communityId, rosterCursor, rosterReqs, members, rosterFrame>>

\* lines 47-49: the members of a page, appended in page order.  Each is a
\* new object: `obj` stands for its identity (the n-th object the run made),
\* which is what Array.prototype.indexOf compares.
MembersOf(n, data) ==
    [i \in 1..Len(data) |->
        [obj |-> n + i,
         userId |-> data[i].user.userId, username |-> data[i].user.username]]

\* lines 46-53, then lines 93-94: a roster page arrives.  After the last
\* page fetchAllMembers returns and processCommunity calls
\* asyncPool(CONCURRENCY_LIMIT, members, ...) with an empty rapResults.
RosterPageOk_NewestFirst(r) ==
    /\ phase[r] = "FetchingRoster"
    /\ LET body == RosterBody(PageOf(rosterCursor[r]))
           all == MembersOf(Len(members[r]), body.data) \o members[r]
       IN  /\ members' = [members EXCEPT ![r] = all]
           /\ IF body.nextPageCursor = <<>>
              THEN /\ phase' = [phase EXCEPT ![r] = "AggregatingScores"]
                   /\ rapResults' = [rapResults EXCEPT ![r] = <<>>]
                   /\ PoolCall(r, CONCURRENCY_LIMIT, all)
                   /\ cursor' = [cursor EXCEPT ![r] = [p \in 1..Len(all) |-> <<>>]]
                   /\ rap' = [rap EXCEPT ![r] = [p \in 1..Len(all) |-> 0]]
                   /\ outcome' = [outcome EXCEPT ![r] = [p \in 1..Len(all) |-> "pending"]]
                   /\ failedPage' = [failedPage EXCEPT ![r] = [p \in 1..Len(all) |-> 0]]
                   /\ itemReqs' = [itemReqs EXCEPT ![r] = [p \in 1..Len(all) |-> <<>>]]
                   /\ rapWrites' = [rapWrites EXCEPT ![r] = [p \in 1..Len(all) |-> <<>>]]
                   /\ UNCHANGED reordered
                   /\ UNCHANGED <<rosterCursor, rosterReqs>>
              ELSE /\ rosterCursor' = [rosterCursor EXCEPT ![r] = body.nextPageCursor]
                   /\ rosterReqs' = [rosterReqs EXCEPT ![r] = Append(@, body.nextPageCursor)]
                   /\ UNCHANGED <<idlePool, phase>>
    /\ UNCHANGED <<communityId, error, failedIn, rosterFrame>>
RosterPageOk(r) ==
    /\ phase[r] = "FetchingRoster"
    /\ LET body == RosterBody(PageOf(rosterCursor[r]))
           all == members[r] \o MembersOf(Len(members[r]), body.data)
       IN  /\ members' = [members EXCEPT ![r] = all]
           /\ IF body.nextPageCursor = <<>>
              THEN /\ phase' = [phase EXCEPT ![r] = "AggregatingScores"]
                   /\ rapResults' = [rapResults EXCEPT ![r] = <<>>]
                   /\ PoolCall(r, CONCURRENCY_LIMIT, all)
                   /\ cursor' = [cursor EXCEPT ![r] = [p \in 1..Len(all) |-> <<>>]]
                   /\ rap' = [rap EXCEPT ![r] = [p \in 1..Len(all) |-> 0]]
                   /\ outcome' = [outcome EXCEPT ![r] = [p \in 1..Len(all) |-> "pending"]]
                   /\ failedPage' = [failedPage EXCEPT ![r] = [p \in 1..Len(all) |-> 0]]
                   /\ itemReqs' = [itemReqs EXCEPT ![r] = [p \in 1..Len(all) |-> <<>>]]
                   /\ rapWrites' = [rapWrites EXCEPT ![r] = [p \in 1..Len(all) |-> <<>>]]
                   /\ UNCHANGED reordered
                   /\ UNCHANGED <<rosterCursor, rosterReqs>>
              ELSE /\ rosterCursor' = [rosterCursor EXCEPT ![r] = body.nextPageCursor]
                   /\ rosterReqs' = [rosterReqs EXCEPT ![r] = Append(@, body.nextPageCursor)]
                   /\ UNCHANGED <<idlePool, phase>>
    /\ UNCHANGED <<communityId, error, failedIn, rosterFrame>>

\* ---------------------------------------------------------- fetchUserRAP

\* line 75: `item.recentAveragePrice || 0`
Price(item) ==
    IF "recentAveragePrice" \in DOMAIN item /\ item.recentAveragePrice # 0
    THEN item.recentAveragePrice ELSE 0

\* line 76: `price >= LIMITED_THRESHOLD`
Counts_Strict(price) == price > LIMITED_THRESHOLD
Counts(price) == price >= LIMITED_THRESHOLD

\* lines 74-77: the total after the items of one page.
RECURSIVE AddPage(_, _)
AddPage(total, data) ==
    IF data = <<>> THEN total
    ELSE AddPage(IF Counts(Price(Head(data))) THEN total + Price(Head(data)) ELSE total,
                 Tail(data))

taskFrame == <<runVars, msgVars, store, envVars>>

\* line 95, lines 62-67: the closure of lines 94-97 is invoked for a member
\* and calls fetchUserRAP, which requests the first page.
MemberTaskStart(r, p) ==
    /\ InvokeIterator(r, p)
    /\ itemReqs' = [itemReqs EXCEPT ![r][p] = << <<>> >>]
    /\ UNCHANGED <<fetchVars, rapResults, rapWrites, reordered, taskFrame>>

\* lines 81, 96: fetchUserRAP returns `total`; the closure records it under
\* the member's userId and returns.
Return(r, p, total, how) ==
    /\ rap' = [rap EXCEPT ![r][p] = total]
    /\ outcome' = [outcome EXCEPT ![r][p] = how]
    /\ rapResults' = [rapResults EXCEPT ![r] = Put(@, array[r][p].userId, total)]
    /\ rapWrites' = [rapWrites EXCEPT ![r][p] = Append(@, array[r][p].userId)]
    /\ reordered' = [reordered EXCEPT ![r] =
                         @ \/ \E q \in 1..(p - 1) : rapWrites[r][q] = <<>>]
    /\ IteratorFulfils(r, p)

\* fetchUserRAP raises, and with it the closure.
Raise(r, p) ==
    /\ outcome' = [outcome EXCEPT ![r][p] = "raised"]
    /\ IteratorRejects(r, p)
    /\ UNCHANGED <<cursor, rap, failedPage, itemReqs, rapResults, rapWrites, reordered>>

Fetching(r, p) == p \in Positions(r) /\ task[r][p] = "running"

\* line 67: fetch() of a collectibles page rejects (the source is unreachable).
ItemsUnreachable(r, p) ==
    /\ Fetching(r, p)
    /\ Raise(r, p)
    /\ UNCHANGED taskFrame

\* line 73: res.json() of a collectibles page rejects (the body is unreadable).
ItemsBodyUnreadable(r, p) ==
    /\ Fetching(r, p)
    /\ Raise(r, p)
    /\ UNCHANGED taskFrame

\* lines 68-72: a collectibles page comes back with a non-success status;
\* the loop is left with the total so far.
ItemsStatusNotOk_ReturnsZero(r, p) ==
    /\ Fetching(r, p)
    /\ failedPage' = [failedPage EXCEPT ![r][p] = PageOf(cursor[r][p])]
    /\ Return(r, p, 0, "status")
    /\ UNCHANGED <<cursor, itemReqs, taskFrame>>
ItemsStatusNotOk(r, p) ==
    /\ Fetching(r, p)
    /\ failedPage' = [failedPage EXCEPT ![r][p] = PageOf(cursor[r][p])]
    /\ Return(r, p, rap[r][p], "status")
    /\ UNCHANGED <<cursor, itemReqs, taskFrame>>

\* lines 73-80: a collectibles page arrives.
ItemsPageOk(r, p) ==
    /\ Fetching(r, p)
    /\ LET body == ItemsBody(array[r][p].userId, PageOf(cursor[r][p]))
           total == AddPage(rap[r][p], body.data)
       IN  IF body.nextPageCursor = <<>>
           THEN /\ Return(r, p, total, "complete")
                /\ UNCHANGED <<cursor, itemReqs>>
           ELSE /\ cursor' = [cursor EXCEPT ![r][p] = body.nextPageCursor]
                /\ itemReqs' = [itemReqs EXCEPT ![r][p] = Append(@, body.nextPageCursor)]
                /\ rap' = [rap EXCEPT ![r][p] = total]
                /\ UNCHANGED <<poolVars, outcome, rapResults, rapWrites, reordered>>
    /\ UNCHANGED <<failedPage, taskFrame>>

\* ------------------------------------------------ ranking and persisting

\* line 100: `rapResults[m.userId] || 0`
ScoreOf(results, m) ==
    IF m.userId \in DOMAIN results /\ results[m.userId] # 0
    THEN results[m.userId] ELSE 0

\* line 100: the projection of the roster.
Project(ms, results) ==
    [i \in 1..Len(ms) |-> [username |-> ms[i].username, rap |-> ScoreOf(results, ms[i])]]

\* line 101: the comparator `(a, b) => b.rap - a.rap`.
Compare_Ascending(a, b) == a.rap - b.rap
Compare(a, b) == b.rap - a.rap

\* Array.prototype.sort (stable): x is placed after the entries that do not
\* compare after it.
RECURSIVE Insert_TiesFirst(_, _)
Insert_TiesFirst(x, s) ==
    IF s = <<>> THEN <<x>>
    ELSE IF Compare(Head(s), x) < 0 THEN <<Head(s)>> \o Insert_TiesFirst(x, Tail(s))
    ELSE <<x>> \o s
RECURSIVE Insert(_, _)
Insert(x, s) ==
    IF s = <<>> THEN <<x>>
    ELSE IF Compare(Head(s), x) <= 0 THEN <<Head(s)>> \o Insert(x, Tail(s))
    ELSE <<x>> \o s
RECURSIVE Sort(_)
Sort(s) == IF s = <<>> THEN <<>> ELSE Insert(s[Len(s)], Sort(SubSeq(s, 1, Len(s) - 1)))

\* lines 99-101
Rank(ms, results) == Sort(Project(ms, results))

\* lines 97-104: asyncPool has fulfilled; the roster is ranked and the
\* store write is issued.
RankAndPersist_BeforeDrain(r) ==
    /\ phase[r] = "AggregatingScores"
    /\ pool[r] \in {"all", "resolved"}
    /\ ranked' = [ranked EXCEPT ![r] = Rank(members[r], rapResults[r])]
    /\ phase' = [phase EXCEPT ![r] = "Persisting"]
    /\ UNCHANGED <<idlePool, communityId, rosterCursor, rosterReqs, members, error,
                   failedIn, writes, msgVars, store, envVars>>
RankAndPersist(r) ==
    /\ phase[r] = "AggregatingScores"
    /\ pool[r] = "resolved"
    /\ ranked' = [ranked EXCEPT ![r] = Rank(members[r], rapResults[r])]
    /\ phase' = [phase EXCEPT ![r] = "Persisting"]
    /\ UNCHANGED <<idlePool, communityId, rosterCursor, rosterReqs, members, error,
                   failedIn, writes, msgVars, store, envVars>>

\* lines 94-97: asyncPool has rejected; the await throws.
AggregationFails_PersistsPartial(r) ==
    /\ phase[r] = "AggregatingScores"
    /\ pool[r] = "rejected"
    /\ Fail(r, "Failed to fetch")
    /\ store' = Put(store, "lastCommunityId", communityId[r])
    /\ UNCHANGED <<idlePool, communityId, rosterCursor, rosterReqs, members, ranked,
                   writes, msgVars, envVars>>
AggregationFails(r) ==
    /\ phase[r] = "AggregatingScores"
    /\ pool[r] = "rejected"
    /\ Fail(r, "Failed to fetch")
    /\ UNCHANGED <<idlePool, communityId, rosterCursor, rosterReqs, members, ranked,
                   writes, msgVars, store, envVars>>

\* line 104: the snapshot chrome.storage.local.set is given.
Snapshot_KeepsStoredId(r) ==
    IF "lastCommunityId" \in DOMAIN store
    THEN Put(store, "lastResults", ranked[r])
    ELSE Put(Put(store, "lastCommunityId", communityId[r]), "lastResults", ranked[r])
Snapshot(r) ==
    Put(Put(store, "lastCommunityId", communityId[r]), "lastResults", ranked[r])

\* lines 104-105: chrome.storage.local.set completes; the ranking is returned.
StoreSetCompletes_SkipsEmpty(r) ==
    /\ phase[r] = "Persisting"
    /\ store' = IF ranked[r] = <<>> THEN store ELSE Snapshot(r)
    /\ writes' = [writes EXCEPT ![r] = @ + 1]
    /\ persisted' = Append(persisted, communityId[r])
    /\ phase' = [phase EXCEPT ![r] = "Done"]
    /\ UNCHANGED <<idlePool, communityId, rosterCursor, rosterReqs, members, ranked,
                   error, failedIn, msgVars, store0, upVars>>
StoreSetCompletes(r) ==
    /\ phase[r] = "Persisting"
    /\ store' = Snapshot(r)
    /\ writes' = [writes EXCEPT ![r] = @ + 1]
    /\ persisted' = Append(persisted, communityId[r])
    /\ phase' = [phase EXCEPT ![r] = "Done"]
    /\ UNCHANGED <<idlePool, communityId, rosterCursor, rosterReqs, members, ranked,
                   error, failedIn, msgVars, store0, upVars>>

\* line 104: chrome.storage.local.set rejects (the quota is exceeded, say);
\* the store keeps what it held.
StoreSetFails_WritesId(r) ==
    /\ phase[r] = "Persisting"
    /\ Fail(r, "QUOTA_BYTES quota exceeded")
    /\ store' = Put(store, "lastCommunityId", communityId[r])
    /\ UNCHANGED <<idlePool, communityId, rosterCursor, rosterReqs, members, ranked,
                   writes, msgVars, envVars>>
StoreSetFails(r) ==
    /\ phase[r] = "Persisting"
    /\ Fail(r, "QUOTA_BYTES quota exceeded")
    /\ UNCHANGED <<idlePool, communityId, rosterCursor, rosterReqs, members, ranked,
                   writes, msgVars, store, envVars>>

\* lines 112-113, 121-122: the then and catch callbacks of the listener.
SendResponse_NoCatch(r) ==
    /\ phase[r] = "Done"
    /\ response[r] = <<>>
    /\ response' = [response EXCEPT ![r] = <<[success |-> TRUE, list |-> ranked[r]]>>]
    /\ UNCHANGED <<idlePool, runVars, msg, store, envVars>>
SendResponse(r) ==
    /\ phase[r] \in {"Done", "Failed"}
    /\ response[r] = <<>>
    /\ response' = [response EXCEPT ![r] =
           <<IF phase[r] = "Done"
             THEN [success |-> TRUE, list |-> ranked[r]]
             ELSE [success |-> FALSE, error |-> error[r]]>>]
    /\ UNCHANGED <<idlePool, runVars, msg, store, envVars>>

\* popup.js:58-81: what the promise of fetchCommunityList or refreshList is
\* settled with when the response arrives.
PopupOutcome(resp) ==
    IF resp.success
    THEN [resolved |-> resp.list]
    ELSE [rejected |-> IF resp.error # "" THEN resp.error ELSE "Unknown error"]

\* ------------------------------------------------------------------ Spec

\* What the runs and the listener hold, for the message slots R, before any
\* message.
InitRest(R) ==
    /\ cursor = [r \in R |-> <<>>]
    /\ rap = [r \in R |-> <<>>]
    /\ outcome = [r \in R |-> <<>>]
    /\ failedPage = [r \in R |-> <<>>]
    /\ itemReqs = [r \in R |-> <<>>]
    /\ phase = [r \in R |-> "Idle"]
    /\ communityId = [r \in R |-> 0]
    /\ rosterCursor = [r \in R |-> <<>>]
    /\ rosterReqs = [r \in R |-> <<>>]
    /\ members = [r \in R |-> <<>>]
    /\ rapResults = [r \in R |-> <<>>]
    /\ rapWrites = [r \in R |-> <<>>]
    /\ reordered = [r \in R |-> FALSE]
    /\ ranked = [r \in R |-> <<>>]
    /\ error = [r \in R |-> ""]
    /\ failedIn = [r \in R |-> ""]
    /\ writes = [r \in R |-> 0]
    /\ msg = [r \in R |-> "none"]
    /\ response = [r \in R |-> <<>>]

\* No asyncPool call has been made in the slots R.
InitNoPool(R) ==
    /\ poolLimit = [r \in R |-> 0]
    /\ array = [r \in R |-> <<>>]
    /\ nextIdx = [r \in R |-> 0]
    /\ executing = [r \in R |-> <<>>]
    /\ pool = [r \in R |-> "idle"]
    /\ race = [r \in R |-> "none"]
    /\ task = [r \in R |-> <<>>]
    /\ started = [r \in R |-> <<>>]
    /\ argIndex = [r \in R |-> <<>>]

\* The worker has started: no message yet, the store empty or holding the
\* snapshot of an earlier run, and some upstream data: a group whose members
\* are the users 1..upSize, each served once.
Init ==
    /\ InitNoPool(Runs)
    /\ InitRest(Runs)
    /\ store \in {EmptyStore, PriorSnapshot(PriorId)}
    /\ store0 = store
    /\ persisted = <<>>
    /\ upSize \in 0..MaxMembers
    /\ upRoster = [i \in 1..upSize |-> i]
    /\ upItems \in [1..upSize -> ItemData]

poolFrame == <<fetchVars, itemReqs, rapResults, rapWrites, reordered, taskFrame>>

\* The message slots of the worker.
Slots == DOMAIN phase

Next ==
    \/ \E r \in Slots : \E c \in CommunityIds : OnFetchCommunity(r, c)
    \/ \E r \in Slots : OnRefresh(r)
    \/ \E r \in Slots : OnStoredId(r)
    \/ \E r \in Slots : RosterUnreachable(r)
    \/ \E r \in Slots : RosterStatusNotOk(r)
    \/ \E r \in Slots : RosterBodyUnreadable(r)
    \/ \E r \in Slots : RosterPageOk(r)
    \/ \E r \in Slots : PoolIterate(r) /\ UNCHANGED poolFrame
    \/ \E r \in Slots : PoolLoopEnd(r) /\ UNCHANGED poolFrame
    \/ \E r \in Slots : RaceWake(r) /\ UNCHANGED poolFrame
    \/ \E r \in Slots : AllSettles(r) /\ UNCHANGED poolFrame
    \/ \E r \in Slots : \E p \in Positions(r) : Splice(r, p) /\ UNCHANGED poolFrame
    \/ \E r \in Slots : \E p \in Positions(r) : MemberTaskStart(r, p)
    \/ \E r \in Slots : \E p \in Positions(r) : ItemsUnreachable(r, p)
    \/ \E r \in Slots : \E p \in Positions(r) : ItemsBodyUnreadable(r, p)
    \/ \E r \in Slots : \E p \in Positions(r) : ItemsStatusNotOk(r, p)
    \/ \E r \in Slots : \E p \in Positions(r) : ItemsPageOk(r, p)
    \/ \E r \in Slots : RankAndPersist(r)
    \/ \E r \in Slots : AggregationFails(r)
    \/ \E r \in Slots : StoreSetCompletes(r)
    \/ \E r \in Slots : StoreSetFails(r)
    \/ \E r \in Slots : SendResponse(r)

Spec == Init /\ [][Next]_vars

\* -------------------------------------------------------------- FairSpec

\* Spec, with the scheduling the claims on termination assume: a request or
\* a store operation that is outstanding completes, and a continuation or a
\* callback that is due runs (the event loop keeps taking what is ready).
\* FairSpec starts from the states of Init in which every user's listing is
\* the two-page one, the listing whose fetch takes every path of fetchUserRAP.
InitFair ==
    /\ Init
    /\ \A u \in 1..upSize :
           upItems[u] = << <<Priced(10000), Priced(9999)>>, <<Unpriced, Priced(20000)>> >>

FairSpec == InitFair /\ [][Next]_vars /\ WF_vars(Next)

\* ------------------------------------------------------------ SpecOverlap

\* Two messages, which the listener may receive in any order and at any
\* time, also while the run of the other is in progress.
TwoSlots == {1, 2}

\* The worker has started; the group has the two members 1 and 2, each with
\* a one-page listing.
InitOverlap ==
    /\ InitNoPool(TwoSlots)
    /\ InitRest(TwoSlots)
    /\ store \in {EmptyStore, PriorSnapshot(PriorId)}
    /\ store0 = store
    /\ persisted = <<>>
    /\ upSize = 2
    /\ upRoster = <<1, 2>>
    /\ upItems = << << <<Priced(5000), Priced(12000)>> >>, << <<Priced(15000)>> >> >>

SpecOverlap == InitOverlap /\ [][Next]_vars
\* ---------------------------------------------------------------- SpecDup

\* Spec over the rosters the source may serve for a group of the two users
\* 1 and 2, in any order and with repeats: the roster is fetched page by
\* page while the group changes, and a user who left and joined again is
\* served again.  User 1 has the two-page listing, user 2 a one-page one.
InitDup ==
    /\ InitNoPool(Runs)
    /\ InitRest(Runs)
    /\ store \in {EmptyStore, PriorSnapshot(PriorId)}
    /\ store0 = store
    /\ persisted = <<>>
    /\ upSize = 2
    /\ upRoster \in [1..MaxMembers -> 1..upSize]
    /\ upItems = << << <<Priced(10000), Priced(9999)>>, <<Unpriced, Priced(20000)>> >>,
                    << <<Priced(15000)>> >> >>

SpecDup == InitDup /\ [][Next]_vars

\* --------------------------------------------------------------- SpecPool

\* asyncPool has just been called with some limit >= 1 and some array.
InitPool ==
    /\ poolLimit \in [Runs -> 1..MaxLimit]
    /\ array \in [Runs -> SeqsUpTo(PoolItems, MaxLen)]
    /\ nextIdx = [r \in Runs |-> 0]
    /\ executing = [r \in Runs |-> <<>>]
    /\ pool = [r \in Runs |-> "loop"]
    /\ race = [r \in Runs |-> "none"]
    /\ task = [r \in Runs |-> [p \in 1..Len(array[r]) |-> "none"]]
    /\ started = [r \in Runs |-> [p \in 1..Len(array[r]) |-> 0]]
    /\ argIndex = [r \in Runs |-> [p \in 1..Len(array[r]) |-> -1]]
    /\ InitRest(Runs)
    /\ store = EmptyStore
    /\ store0 = EmptyStore
    /\ persisted = <<>>
    /\ upSize = 0
    /\ upRoster = <<>>
    /\ upItems = <<>>

notPool == <<fetchVars, itemReqs, runVars, rapResults, rapWrites, reordered, msgVars,
             store, envVars>>

\* An iterator function that does nothing but settle, at any time.
AnyIteratorStart(r, p) == InvokeIterator(r, p) /\ UNCHANGED notPool
AnyIteratorFulfils(r, p) == IteratorFulfils(r, p) /\ UNCHANGED notPool
AnyIteratorRejects(r, p) == IteratorRejects(r, p) /\ UNCHANGED notPool

NextPool ==
    \/ \E r \in Runs : PoolIterate(r) /\ UNCHANGED notPool
    \/ \E r \in Runs : PoolLoopEnd(r) /\ UNCHANGED notPool
    \/ \E r \in Runs : RaceWake(r) /\ UNCHANGED notPool
    \/ \E r \in Runs : AllSettles(r) /\ UNCHANGED notPool
    \/ \E r \in Runs : \E p \in Positions(r) : Splice(r, p) /\ UNCHANGED notPool
    \/ \E r \in Runs : \E p \in Positions(r) : AnyIteratorStart(r, p)
    \/ \E r \in Runs : \E p \in Positions(r) : AnyIteratorFulfils(r, p)
    \/ \E r \in Runs : \E p \in Positions(r) : AnyIteratorRejects(r, p)

SpecPool == InitPool /\ [][NextPool]_vars

\* ----------------------------------------------------------------- claims

\* The tasks of a run that iteratorFn has started and that have not completed.
InFlight(r) == {p \in Positions(r) : task[r][p] = "running"}
\* The tasks of a run whose promise p exists and is not settled: those in
\* flight and those whose invocation is due.
Unsettled(r) == {p \in Positions(r) : task[r][p] \in {"scheduled", "running"}}

PoolSettled(r) == pool[r] \in {"resolved", "rejected"}

\* C1: at every moment of an asyncPool run, whatever the order in which the
\* tasks complete, the number of tasks started and not yet completed is at
\* most the limit K (and so is the number of unsettled task promises).
C1_InFlightAtMostLimit ==
    \A r \in Runs :
        /\ Cardinality(InFlight(r)) <= poolLimit[r]
        /\ Cardinality(Unsettled(r)) <= poolLimit[r]

\* C1 witness: a throttled run with K >= 2 tasks in flight at once while
\* items are still waiting to be taken.
C1_PoolAtCapacity ==
    \E r \in Runs :
        /\ poolLimit[r] >= 2
        /\ Cardinality(InFlight(r)) = poolLimit[r]
        /\ nextIdx[r] < Len(array[r])

\* C2: once an asyncPool run is over (its promise settled and no invocation
\* still due), iteratorFn has been invoked exactly once for every position
\* of the list: no item skipped, none started twice.
C2_EveryPositionStartedOnce ==
    \A r \in Runs :
        (PoolSettled(r) /\ \A p \in Positions(r) : task[r][p] # "scheduled")
            => \A p \in Positions(r) : started[r][p] = 1

\* C3: whenever the promise of asyncPool is settled, no task is still in
\* flight and none is unstarted.
C3_SettledOnlyWhenAllComplete ==
    \A r \in Runs :
        PoolSettled(r) => \A p \in Positions(r) : task[r][p] \in {"fulfilled", "rejected"}

\* C4: asyncPool does not reject, also when iteratorFn rejects for an item.
C4_PoolDoesNotReject ==
    \A r \in Runs : pool[r] # "rejected"

\* What C2 and C3 say holds on the runs in which no task rejects.
StartedOnceAndDrainedUnlessATaskRejects ==
    \A r \in Runs :
        (PoolSettled(r) /\ \A p \in Positions(r) : task[r][p] # "rejected")
            => \A p \in Positions(r) : started[r][p] = 1 /\ task[r][p] = "fulfilled"

\* C5: fetchUserRAP never raises to its caller, whatever the source does.
C5_FetchUserRAPNeverRaises ==
    \A r \in Runs : \A p \in Positions(r) : outcome[r][p] # "raised"

\* C6: a run fails only while it fetches the roster; once the roster is
\* fetched, no outcome of the per-member fetches fails the run while it
\* aggregates the scores.
C6_NoFailureWhileAggregating ==
    \A r \in Runs : phase[r] = "Failed" => failedIn[r] # "AggregatingScores"

\* C7: a run that has failed has written nothing to the store, which holds
\* what it held before the run (nothing, if it held nothing).
C7_FailedRunLeavesStore ==
    \A r \in Runs : phase[r] = "Failed" => (writes[r] = 0 /\ store = store0)

\* C7 witness: a run that failed on a later roster page with a non-success
\* status, over a store that held a snapshot.
C7_FailedOnLaterRosterPage ==
    \E r \in Runs :
        /\ phase[r] = "Failed"
        /\ error[r] = "Failed to fetch members: 500"
        /\ members[r] # <<>>
        /\ store0 # EmptyStore
        /\ store = store0

\* The value the claims give an item: its price, nothing when it has none.
ValueOf(item) ==
    IF "recentAveragePrice" \in DOMAIN item THEN item.recentAveragePrice ELSE 0

\* The sum of the values >= 10000 among the items of the first n pages.
RECURSIVE SumQualifying(_, _)
SumQualifying(pages, n) ==
    IF n = 0 THEN 0
    ELSE LET page == pages[n]
             hits == {i \in 1..Len(page) : ValueOf(page[i]) >= 10000}
             RECURSIVE SumOver(_)
             SumOver(S) == IF S = {} THEN 0
                           ELSE LET i == CHOOSE i \in S : TRUE
                                IN  ValueOf(page[i]) + SumOver(S \ {i})
         IN  SumOver(hits) + SumQualifying(pages, n - 1)

\* The run has produced its ranking.
HasRanking(r) == phase[r] \in {"Persisting", "Done"}

\* The score the ranking gives the member at roster position p.
RankedScore(r, p) ==
    LET e == CHOOSE e \in {ranked[r][i] : i \in 1..Len(ranked[r])} :
                 e.username = members[r][p].username
    IN  e.rap

PagesOf(r, p) == upItems[members[r][p].userId]

\* C8, as the claim states it: in the ranking of a run, a member whose
\* listing answered some page with a non-success status scores 0, and the
\* members whose pages all succeeded score what they score without it.
C8_FailingMemberScoresZero ==
    \A r \in Runs : HasRanking(r) =>
        \A p \in Positions(r) :
            /\ outcome[r][p] = "status" => RankedScore(r, p) = 0
            /\ outcome[r][p] = "complete" =>
                   RankedScore(r, p) = SumQualifying(PagesOf(r, p), Len(PagesOf(r, p)))

\* C8, amended: a non-success status on page k of a member's listing does
\* not fail the run (the member's task completes, and the aggregation fails
\* only when some request raised); in the ranking the member scores the sum
\* of the qualifying values of pages 1..k-1 (0 when k = 1), and the members
\* whose pages all succeeded score what they score without that failure.
C8_FailingMemberKeepsPartialSum ==
    \A r \in Runs :
        /\ \A p \in Positions(r) : outcome[r][p] = "status" =>
               /\ task[r][p] = "fulfilled"
               /\ failedPage[r][p] \in 1..Len(PagesOf(r, p))
        /\ (phase[r] = "Failed" /\ failedIn[r] = "AggregatingScores") =>
               \E p \in Positions(r) : outcome[r][p] = "raised"
        /\ HasRanking(r) =>
               \A p \in Positions(r) :
                   /\ outcome[r][p] = "status" =>
                          RankedScore(r, p) = SumQualifying(PagesOf(r, p), failedPage[r][p] - 1)
                   /\ outcome[r][p] = "complete" =>
                          RankedScore(r, p) = SumQualifying(PagesOf(r, p), Len(PagesOf(r, p)))

\* C8 witness: a completed run in which one member's second page answered
\* with a non-success status, that member scoring the 10000 of its first
\* page, and another member's pages all succeeded.
C8_DoneWithLaterPageFailure ==
    \E r \in Runs : \E p, q \in Positions(r) :
        /\ phase[r] = "Done"
        /\ outcome[r][p] = "status" /\ failedPage[r][p] = 2
        /\ RankedScore(r, p) = 10000
        /\ outcome[r][q] = "complete"

Recorded(r, m) ==
    IF m.userId \in DOMAIN rapResults[r] THEN rapResults[r][m.userId] ELSE 0

\* C10: the sequence a successful run returns is non-increasing in score and
\* holds exactly one entry per roster member: that member's username with
\* its recorded score.
C10_RankedIsSortedRoster ==
    \A r \in Runs : phase[r] = "Done" =>
        /\ Len(ranked[r]) = Len(members[r])
        /\ \A i \in 1..(Len(ranked[r]) - 1) : ranked[r][i].rap >= ranked[r][i + 1].rap
        /\ \E f \in [1..Len(members[r]) -> 1..Len(ranked[r])] :
               /\ \A i, j \in 1..Len(members[r]) : i # j => f[i] # f[j]
               /\ \A i \in 1..Len(members[r]) :
                      ranked[r][f[i]] = [username |-> members[r][i].username,
                                         rap |-> Recorded(r, members[r][i])]

\* C10 witness: a successful run whose ranking reorders the roster.
C10_DoneReordered ==
    \E r \in Runs :
        /\ phase[r] = "Done"
        /\ Len(members[r]) = 2
        /\ ranked[r][1].username = members[r][2].username
        /\ ranked[r][1].rap > ranked[r][2].rap

\* What the upstream holds for user u: the sum of its qualifying values.
UpstreamTotal(u) == SumQualifying(upItems[u], Len(upItems[u]))

\* The roster positions of S by decreasing upstream total, equal totals in
\* roster order.
RECURSIVE ByTotal(_)
ByTotal(S) ==
    IF S = {} THEN <<>>
    ELSE LET b == CHOOSE i \in S : \A j \in S :
                      \/ UpstreamTotal(upRoster[i]) > UpstreamTotal(upRoster[j])
                      \/ UpstreamTotal(upRoster[i]) = UpstreamTotal(upRoster[j]) /\ i <= j
         IN  <<[username |-> Usernames[upRoster[b]], rap |-> UpstreamTotal(upRoster[b])]>>
                 \o ByTotal(S \ {b})

\* The ranking the upstream data determines.
UpstreamRanking == ByTotal(1..Len(upRoster))

\* Every request of the run's member tasks has succeeded.
AllComplete(r) == \A p \in Positions(r) : outcome[r][p] = "complete"

\* C11: the ranking of a run whose requests all succeed is a function of the
\* upstream data alone: whatever the order in which the member tasks
\* complete, the run ranks, and returns, the one sequence the roster and the
\* listings determine (so two such runs against the same data agree).
C11_RankingDependsOnUpstreamOnly ==
    \A r \in Slots :
        (HasRanking(r) /\ AllComplete(r)) =>
            /\ ranked[r] = UpstreamRanking
            /\ \A i \in 1..Len(response[r]) :
                   response[r][i] = [success |-> TRUE, list |-> UpstreamRanking]

\* C11 witness: a successful run over two members with equal totals, in
\* which the second member's task recorded its score before the first's.
C11_DoneOutOfOrder ==
    \E r \in Slots :
        /\ phase[r] = "Done"
        /\ AllComplete(r)
        /\ reordered[r]
        /\ Len(ranked[r]) = 2
        /\ ranked[r][1].rap = ranked[r][2].rap
        /\ response[r] # <<>>

\* The run of slot r has issued no network request.
NoRequests(r) ==
    /\ rosterReqs[r] = <<>>
    /\ \A p \in DOMAIN itemReqs[r] : itemReqs[r][p] = <<>>

\* The store holds a lastCommunityId.
HoldsId(s) == "lastCommunityId" \in DOMAIN s

NoPrevious == [success |-> FALSE, error |-> "No previous community searched."]

\* C12: a REFRESH whose storage read finds no lastCommunityId is answered,
\* in that step, with the failure 'No previous community searched.' and
\* leaves the store as it is; the slot starts no run, so that it has issued
\* no roster request and no item request, then or later.
C12_RefreshWithoutIdOnlyAnswers ==
    /\ [](\A r \in Slots :
            (msg[r] = "REFRESH" /\ phase[r] = "Idle") =>
                (response[r] = <<NoPrevious>> /\ NoRequests(r)))
    /\ [][\A r \in Slots :
            (phase[r] = "Getting" /\ phase'[r] # "Getting" /\ ~HoldsId(store)) =>
                /\ phase'[r] = "Idle"
                /\ response'[r] = <<NoPrevious>>
                /\ store' = store]_vars

\* C12 witness: a REFRESH answered over an empty store.
C12_RefreshAnsweredOverEmptyStore ==
    \E r \in Slots :
        /\ msg[r] = "REFRESH"
        /\ phase[r] = "Idle"
        /\ response[r] = <<NoPrevious>>
        /\ store = EmptyStore

\* A run of slot r has just returned to its caller.
Returns(r) == phase[r] # "Done" /\ phase'[r] = "Done"

\* C13: when a processCommunity(X) run returns, the store holds exactly
\* lastCommunityId = X and lastResults = the run's ranking, whatever it held
\* before, and a response that reports success carries that same ranking;
\* so also for an empty roster, whose empty ranking is written.
C13_SuccessfulRunPersistsItsRanking ==
    /\ [][\A r \in Slots :
            Returns(r) =>
                /\ store' = [lastCommunityId |-> communityId[r], lastResults |-> ranked[r]]
                /\ writes'[r] = 1
                /\ ranked'[r] = ranked[r] /\ communityId'[r] = communityId[r]]_vars
    /\ [](\A r \in Slots : \A i \in 1..Len(response[r]) :
            response[r][i].success =>
                (phase[r] = "Done" /\ response[r][i].list = ranked[r]))

\* C13 witness: a run for another community than the stored one, whose
\* roster is empty, has returned and been answered: the store holds its
\* community and an empty lastResults.
C13_EmptyRosterReplacesSnapshot ==
    \E r \in Slots :
        /\ phase[r] = "Done"
        /\ members[r] = <<>>
        /\ store0 = PriorSnapshot(PriorId)
        /\ communityId[r] # PriorId
        /\ store = [lastCommunityId |-> communityId[r], lastResults |-> <<>>]
        /\ response[r] = <<[success |-> TRUE, list |-> <<>>]>>

\* fetchAllMembers has returned to the run of slot r.
RosterFetched(r) ==
    \/ phase[r] \in {"AggregatingScores", "Persisting", "Done"}
    \/ phase[r] = "Failed" /\ failedIn[r] # "FetchingRoster"

\* The members the roster source serves, in its order.
UpstreamMembers ==
    [i \in 1..Len(upRoster) |->
        [userId |-> upRoster[i], username |-> Usernames[upRoster[i]]]]

\* The members as values.
Plain(ms) ==
    [i \in 1..Len(ms) |-> [userId |-> ms[i].userId, username |-> ms[i].username]]

\* C14: fetchAllMembers requests the first roster page with cursor '' and
\* each further page with the cursor the page before it returned, no page
\* twice; when it returns, the last page requested is one that reported no
\* next cursor and the members are those of the pages, in page order; and
\* (the cursor chain being finite) it does not fetch for ever.
C14_RosterIsConcatenationOfPages ==
    /\ [](\A r \in Runs :
            /\ rosterReqs[r] # <<>> => rosterReqs[r][1] = <<>>
            /\ \A i \in 2..Len(rosterReqs[r]) :
                   /\ rosterReqs[r][i] # <<>>
                   /\ rosterReqs[r][i] =
                          RosterBody(PageOf(rosterReqs[r][i - 1])).nextPageCursor
            /\ \A i, j \in 1..Len(rosterReqs[r]) :
                   i # j => PageOf(rosterReqs[r][i]) # PageOf(rosterReqs[r][j])
            /\ RosterFetched(r) =>
                   /\ RosterBody(PageOf(rosterReqs[r][Len(rosterReqs[r])])).nextPageCursor = <<>>
                   /\ Plain(members[r]) = UpstreamMembers)
    /\ \A r \in Runs : (phase[r] = "FetchingRoster") ~> (phase[r] # "FetchingRoster")

\* C14 witness: fetchAllMembers has returned the two members of a roster it
\* fetched in two pages.
C14_RosterOfTwoPages ==
    \E r \in Runs :
        /\ RosterFetched(r)
        /\ rosterReqs[r] = << <<>>, <<2>> >>
        /\ Plain(members[r]) = <<[userId |-> 1, username |-> "A"],
                                 [userId |-> 2, username |-> "B"]>>

\* The member task at position p has completed: it has recorded its score.
TaskCompleted(r, p) ==
    /\ task[r][p] = "fulfilled"
    /\ outcome[r][p] \in {"complete", "status"}
    /\ rapWrites[r][p] # <<>>

\* C18: the phases of a run follow one another.  An item request has been
\* issued only in a run whose roster fetch has returned (its last page
\* received); the run computes its ranking, and issues the store write, in
\* a step before which every member task had completed; and it returns, and
\* answers success, only once its store write has completed.
C18_PhasesInOrder ==
    /\ [](\A r \in Slots :
            /\ (\E p \in DOMAIN itemReqs[r] : itemReqs[r][p] # <<>>) =>
                   /\ RosterFetched(r)
                   /\ RosterBody(PageOf(rosterReqs[r][Len(rosterReqs[r])])).nextPageCursor = <<>>
            /\ phase[r] \in {"Persisting", "Done"} =>
                   /\ \A p \in Positions(r) : TaskCompleted(r, p)
                   /\ Len(ranked[r]) = Len(members[r])
            /\ phase[r] = "Persisting" => writes[r] = 0
            /\ (phase[r] = "Done" \/ \E i \in 1..Len(response[r]) : response[r][i].success) =>
                   (writes[r] = 1 /\ phase[r] = "Done"))
    /\ [][\A r \in Slots :
            /\ ranked'[r] # ranked[r] =>
                   /\ \A p \in Positions(r) : TaskCompleted(r, p)
                   /\ phase[r] = "AggregatingScores" /\ phase'[r] = "Persisting"
            /\ (phase'[r] = "Persisting" /\ phase[r] # "Persisting") =>
                   \A p \in Positions(r) : TaskCompleted(r, p)
            /\ Returns(r) => (phase[r] = "Persisting" /\ writes'[r] = writes[r] + 1)]_vars

\* C18 witness: a run over two members, through all its phases: the roster
\* in two pages, an item request by each member task, the ranking, one
\* store write, and the success answered.
C18_RunThroughAllPhases ==
    \E r \in Slots :
        /\ phase[r] = "Done"
        /\ Len(rosterReqs[r]) = 2
        /\ \A p \in Positions(r) : itemReqs[r][p] # <<>>
        /\ Len(ranked[r]) = 2
        /\ writes[r] = 1
        /\ response[r] = <<[success |-> TRUE, list |-> ranked[r]]>>

\* The runs whose store write is issued and not completed.
Persisting == {r \in Slots : phase[r] = "Persisting"}

\* C15: over any messages, also ones that arrive while an earlier run is in
\* progress, at most one run at a time has its store write outstanding (the
\* store is not written concurrently).
C15_AtMostOnePersisting == Cardinality(Persisting) <= 1

\* What C15 says besides holds: the store changes only in the step in which
\* the write of a run in Persisting completes.
StoreWrittenOnlyByPersistingRun ==
    [][store' # store => \E r \in Slots : phase[r] = "Persisting" /\ phase'[r] = "Done"]_vars

\* C19: whatever runs overlap, the store holds what it held when the worker
\* started (nothing, or the snapshot of an earlier run) or the snapshot of
\* one completed run: that run's community with that run's ranking, never a
\* lastResults of one run beside the lastCommunityId of another.
C19_SnapshotIsOfOneRun ==
    \/ store = store0
    \/ \E r \in Slots :
           /\ phase[r] = "Done"
           /\ store = [lastCommunityId |-> communityId[r], lastResults |-> ranked[r]]

\* C19 witness: two runs for different communities have completed with
\* different rankings, and the store holds the community and the ranking of
\* the first slot's.
C19_TwoRunsPersisted ==
    \E r, q \in Slots :
        /\ phase[r] = "Done" /\ phase[q] = "Done"
        /\ communityId[r] # communityId[q]
        /\ ranked[r] # ranked[q]
        /\ persisted = <<communityId[q], communityId[r]>>
        /\ store = [lastCommunityId |-> communityId[r], lastResults |-> ranked[r]]

\* The community of the store write completed last (the snapshot the worker
\* started with counting as the write of an earlier run), 0 if there is none.
LastPersistedId ==
    IF persisted # <<>> THEN persisted[Len(persisted)]
    ELSE IF HoldsId(store0) THEN store0["lastCommunityId"] ELSE 0

\* C17: whatever messages came before, the store's lastCommunityId is the
\* community of the run whose store write completed last, and a run that
\* fails leaves the store as it is; a REFRESH whose storage read finds a
\* lastCommunityId starts processCommunity with exactly that identifier,
\* from the first roster request, and such a run that completes has fetched
\* the whole roster.
C17_RefreshRunsLastPersistedId ==
    /\ [](/\ HoldsId(store) => store["lastCommunityId"] = LastPersistedId
          /\ \A r \in Slots :
                 (msg[r] = "REFRESH" /\ phase[r] = "Done") =>
                     /\ rosterReqs[r][1] = <<>>
                     /\ Plain(members[r]) = UpstreamMembers
                     /\ \A p \in Positions(r) : itemReqs[r][p] # <<>>)
    /\ [][\A r \in Slots :
            /\ (phase'[r] = "Failed" /\ phase[r] # "Failed") =>
                   (store' = store /\ persisted' = persisted)
            /\ (phase[r] = "Getting" /\ phase'[r] # "Getting" /\ HoldsId(store)) =>
                   /\ phase'[r] = "FetchingRoster"
                   /\ communityId'[r] = store["lastCommunityId"]
                   /\ communityId'[r] = LastPersistedId
                   /\ rosterReqs'[r] = << <<>> >>
                   /\ members'[r] = <<>>
                   /\ response'[r] = <<>>]_vars

\* C17 witness: over a store that held the snapshot of an earlier run, a
\* FETCH_COMMUNITY for another community has failed while aggregating, and a
\* REFRESH has run to completion for the stored community.
C17_RefreshAfterFailedRun ==
    \E r, q \in Slots :
        /\ store0 = PriorSnapshot(PriorId)
        /\ msg[q] = "FETCH_COMMUNITY" /\ communityId[q] # PriorId
        /\ phase[q] = "Failed" /\ failedIn[q] = "AggregatingScores"
        /\ msg[r] = "REFRESH" /\ communityId[r] = PriorId
        /\ phase[r] = "Done"
        /\ persisted = <<PriorId>>

\* C16: the tasks of a run write rapResults disjointly: a task assigns at
\* most one key, its own member's identifier, once (exactly once when the
\* pool has drained), and no two tasks of a run assign the same key,
\* whatever roster the source returned.
C16_WritesAreDisjoint ==
    \A r \in Slots :
        /\ \A p \in Positions(r) :
               rapWrites[r][p] \in {<<>>, <<members[r][p].userId>>}
        /\ pool[r] = "resolved" => \A p \in Positions(r) : Len(rapWrites[r][p]) = 1
        /\ \A p, q \in Positions(r) :
               (p # q /\ rapWrites[r][p] # <<>> /\ rapWrites[r][q] # <<>>) =>
                   rapWrites[r][p][1] # rapWrites[r][q][1]

\* What holds of C16 on every roster: a task assigns at most one key, its
\* own member's identifier, once (exactly once when the pool has drained),
\* and two tasks of a run assign the same key exactly when the roster names
\* their member twice.
WritesAreDisjointPerIdentifier ==
    \A r \in Slots :
        /\ \A p \in Positions(r) :
               rapWrites[r][p] \in {<<>>, <<members[r][p].userId>>}
        /\ pool[r] = "resolved" => \A p \in Positions(r) : Len(rapWrites[r][p]) = 1
        /\ \A p, q \in Positions(r) :
               (p # q /\ rapWrites[r][p] # <<>> /\ rapWrites[r][q] # <<>>) =>
                   (rapWrites[r][p][1] = rapWrites[r][q][1]
                        <=> upRoster[p] = upRoster[q])

\* What the shared key costs: when one task of a member named twice fetched
\* the whole listing and the other met a non-success status, both entries of
\* the member carry the score recorded last, so that the ranking follows the
\* order in which the two tasks complete.  This formula says that both
\* entries then carry the total of the whole listing: it holds of the runs
\* in which the complete task records last and fails of the others.
RepeatedMemberScoresItsTotal ==
    \A r \in Slots : \A p, q \in Positions(r) :
        (/\ HasRanking(r)
         /\ members[r][p].userId = members[r][q].userId
         /\ outcome[r][p] = "complete" /\ outcome[r][q] = "status") =>
            RankedScore(r, p) = UpstreamTotal(members[r][p].userId)

\* A response of one of the two shapes the listener sends.
WellFormed(resp) ==
    \/ resp.success /\ DOMAIN resp = {"success", "list"}
    \/ ~resp.success /\ DOMAIN resp = {"success", "error"} /\ resp.error # ""

\* C20: every FETCH_COMMUNITY or REFRESH message is answered, once, with
\* {success: true, list} or {success: false, error} (every request and
\* store operation completing, every cursor chain finite); a run that has
\* failed, in whatever phase, is answered with its error, which is what the
\* popup's promise is rejected with (a ranking is what it is resolved with).
C20_EveryMessageAnsweredOnce ==
    /\ [](\A r \in Runs :
            /\ Len(response[r]) <= 1
            /\ response[r] # <<>> => (msg[r] # "none" /\ WellFormed(response[r][1]))
            /\ (phase[r] = "Failed" /\ response[r] # <<>>) =>
                   /\ response[r][1] = [success |-> FALSE, error |-> error[r]]
                   /\ PopupOutcome(response[r][1]) = [rejected |-> error[r]]
            /\ (phase[r] = "Done" /\ response[r] # <<>>) =>
                   PopupOutcome(response[r][1]) = [resolved |-> ranked[r]])
    /\ \A r \in Runs : (msg[r] # "none") ~> (Len(response[r]) = 1)
    /\ \A r \in Runs : (phase[r] = "Failed") ~> (response[r] # <<>>)

\* C20 witness: a run that failed while aggregating (a member's request
\* raised) has been answered with the failure.
C20_FailureAnswered ==
    \E r \in Runs :
        /\ phase[r] = "Failed"
        /\ failedIn[r] = "AggregatingScores"
        /\ response[r] = <<[success |-> FALSE, error |-> "Failed to fetch"]>>

=============================================================================
